---- MODULE Spec2Model ----
(***************************************************************************)
(* A model of octocheck (src/octocheck.py): three diagnostic parsers       *)
(* (PEP8 lines, Cargo JSON lines, xUnit XML), and cli(), which runs them   *)
(* over the matched files, merges their results and submits the            *)
(* annotations to the GitHub Checks API in batches of 50.                  *)
(*                                                                         *)
(* Python values are tagged records [t |-> type, v |-> payload]; a str is  *)
(* a sequence of one-character strings, so that split, strip, startswith,  *)
(* substring tests, int() and string formatting are computed.              *)
(***************************************************************************)
EXTENDS Integers, Sequences, FiniteSets, TLC

VARIABLES
    \* ---- one Parser object (Parser.__init__) and the stream it reads ----
    kind,            \* class of the parser object: "cargo", "pep8", "xunit"
    fileobj,         \* records of the stream not read yet
    stack,           \* CargoJSONParser: pending _annotation_from_message calls
    annotations,     \* self.annotations
    status,          \* self.status
    raised,          \* exception that left parse_fileobj, "none" if none
    nread,           \* records handed to a parser under test
    \* ---- cli() ----
    pc,              \* position in cli(); "unit" when a parser runs alone
    args,            \* parsed arguments: del_prefix, add_prefix
    pi,              \* index in _parsers of the loop variable `parser`
    nfiles,          \* files glob has yielded for the current parser
    curfile,         \* name of the file being parsed
    parser_outputs,  \* parser_outputs[p] = [annotations, file_info]
    overall_status,
    all_annotations,
    output,          \* title / summary / text
    groups,          \* the tuples zip_longest yields
    gi,              \* how many of them the loop has taken
    check_run,       \* None, or the handle create_check_run returned
    calls,           \* requests made to the Checks API, in order
    result           \* return value / exception of cli()

pvars == <<kind, fileobj, stack, annotations, status, raised, nread>>
cvars == <<pc, args, pi, nfiles, curfile, parser_outputs, overall_status,
           all_annotations, output, groups, gi, check_run, calls, result>>
vars == <<kind, fileobj, stack, annotations, status, raised, nread,
          pc, args, pi, nfiles, curfile, parser_outputs, overall_status,
          all_annotations, output, groups, gi, check_run, calls, result>>

-----------------------------------------------------------------------------
(* Bounds *)

\* records (lines, documents) fed to a parser that is run on its own
MaxRecords == 2
\* files glob yields for one parser in one run of cli()
MaxFiles == 2

-----------------------------------------------------------------------------
(* Python values *)

PyNone == [t |-> "none"]
PyInt(n) == [t |-> "int", v |-> n]
PyStr(s) == [t |-> "str", v |-> s]
PyBool(b) == [t |-> "bool", v |-> b]
PyList(l) == [t |-> "list", v |-> l]
PyDict(d) == [t |-> "dict", v |-> d]

\* bool(x)
Truthy(x) ==
    CASE x.t = "none" -> FALSE
      [] x.t = "int" -> x.v # 0
      [] x.t = "str" -> x.v # <<>>
      [] x.t = "bool" -> x.v
      [] x.t = "list" -> x.v # <<>>
      [] x.t = "dict" -> DOMAIN x.v # {}

\* dict.get(key, default)
Get(d, key, default) == IF key \in DOMAIN d.v THEN d.v[key] ELSE default

Whitespace == {" ", "\n"}
Digits == <<"0", "1", "2", "3", "4", "5", "6", "7", "8", "9">>

DigitVal(c) == (CHOOSE i \in 1..10 : Digits[i] = c) - 1
IsDigit(c) == \E i \in 1..10 : Digits[i] = c

RECURSIVE LStrip(_)
LStrip(s) == IF s # <<>> /\ Head(s) \in Whitespace THEN LStrip(Tail(s)) ELSE s

RECURSIVE RStrip(_)
RStrip(s) ==
    IF s # <<>> /\ s[Len(s)] \in Whitespace
    THEN RStrip(SubSeq(s, 1, Len(s) - 1)) ELSE s

\* str.strip()
Strip(s) == RStrip(LStrip(s))

\* str.startswith(prefix)
StartsWith(s, prefix) ==
    Len(prefix) <= Len(s) /\ SubSeq(s, 1, Len(prefix)) = prefix

\* `sub in s` for two str
Contains(s, sub) ==
    \E i \in 0..(Len(s) - Len(sub)) : SubSeq(s, i + 1, i + Len(sub)) = sub

\* str.split(sep) for a one-character separator: always at least one token
RECURSIVE SplitFrom(_, _, _)
SplitFrom(s, sep, cur) ==
    IF s = <<>> THEN <<cur>>
    ELSE IF Head(s) = sep THEN <<cur>> \o SplitFrom(Tail(s), sep, <<>>)
    ELSE SplitFrom(Tail(s), sep, Append(cur, Head(s)))

Split(s, sep) == SplitFrom(s, sep, <<>>)

\* sep.join(parts)
RECURSIVE Join(_, _)
Join(parts, sep) ==
    IF parts = <<>> THEN <<>>
    ELSE IF Len(parts) = 1 THEN parts[1]
    ELSE parts[1] \o <<sep>> \o Join(Tail(parts), sep)

RECURSIVE DigitsVal(_, _)
DigitsVal(s, acc) ==
    IF s = <<>> THEN acc ELSE DigitsVal(Tail(s), 10 * acc + DigitVal(Head(s)))

\* int(s) for a str: surrounding whitespace is ignored, the rest has to be
\* decimal digits (signs and underscores are not in the alphabet used here)
IntOfStr(s) ==
    LET body == Strip(s)
    IN IF body # <<>> /\ \A i \in 1..Len(body) : IsDigit(body[i])
       THEN [ok |-> TRUE, v |-> DigitsVal(body, 0), exc |-> "none"]
       ELSE [ok |-> FALSE, v |-> 0, exc |-> "ValueError"]

\* int(x) for any value
IntOf(x) ==
    CASE x.t = "int" -> [ok |-> TRUE, v |-> x.v, exc |-> "none"]
      [] x.t = "bool" -> [ok |-> TRUE, v |-> IF x.v THEN 1 ELSE 0, exc |-> "none"]
      [] x.t = "str" -> IntOfStr(x.v)
      [] OTHER -> [ok |-> FALSE, v |-> 0, exc |-> "TypeError"]

RECURSIVE NatToStr(_)
NatToStr(n) ==
    IF n < 10 THEN <<Digits[n + 1]>>
    ELSE NatToStr(n \div 10) \o <<Digits[(n % 10) + 1]>>

\* format(x) inside an f-string
Format(x) ==
    CASE x.t = "str" -> x.v
      [] x.t = "int" -> NatToStr(x.v)
      [] x.t = "none" -> <<"N", "o", "n", "e">>
      [] x.t = "bool" -> IF x.v THEN <<"T", "r", "u", "e">>
                         ELSE <<"F", "a", "l", "s", "e">>

-----------------------------------------------------------------------------
(* Annotation and Status *)

SUCCESS == 1
NEUTRAL == 2
FAILURE == 3

StatusName(s) ==
    CASE s = SUCCESS -> "SUCCESS" [] s = NEUTRAL -> "NEUTRAL" [] s = FAILURE -> "FAILURE"

\* Annotation.__init__: the optional attributes default to None
Annotation(path, start_line, end_line, level, message, optionals) ==
    [path |-> path, start_line |-> start_line, end_line |-> end_line,
     level |-> level, message |-> message,
     start_column |-> IF "start_column" \in DOMAIN optionals
                      THEN optionals["start_column"] ELSE PyNone,
     end_column |-> IF "end_column" \in DOMAIN optionals
                    THEN optionals["end_column"] ELSE PyNone,
     title |-> IF "title" \in DOMAIN optionals
               THEN optionals["title"] ELSE PyNone,
     raw_details |-> IF "raw_details" \in DOMAIN optionals
                     THEN optionals["raw_details"] ELSE PyNone]

NoOptionals == [k \in {} |-> PyNone]

\* a parser's fields after some of parse_fileobj has run
PState(anns, st, exc) == [annotations |-> anns, status |-> st, raised |-> exc]

-----------------------------------------------------------------------------
(* Pep8Parser *)

\* the iterable unpacking  path, line, column, *msgparts = line.split(':')
\* raises ValueError (caught: continue) when there are fewer than 3 tokens
Pep8Unpackable(tokens) == Len(tokens) >= 3

\* body of the for loop of Pep8Parser.parse_fileobj for one line
Pep8Line(p, line) ==
    LET tokens == Split(line, ":")
    IN IF ~Pep8Unpackable(tokens) THEN p
       ELSE
         LET path == tokens[1]
             lineno == IntOfStr(tokens[2])
             column == IntOfStr(tokens[3])
             msgparts == SubSeq(tokens, 4, Len(tokens))
             raw_message == Join(msgparts, ":")
             message == Strip(raw_message)
             level == IF StartsWith(message, <<"E">>) THEN "failure" ELSE "warning"
         IN IF ~lineno.ok THEN PState(p.annotations, p.status, lineno.exc)
            ELSE IF ~column.ok THEN PState(p.annotations, p.status, column.exc)
            ELSE PState(
                   p.annotations \cup
                     {Annotation(PyStr(path), lineno.v, lineno.v, level, PyStr(message),
                                 [start_column |-> PyInt(column.v),
                                  end_column |-> PyInt(column.v)])},
                   FAILURE, "none")

-----------------------------------------------------------------------------
(* CargoJSONParser *)

S_error == <<"e", "r", "r", "o", "r">>
S_warning == <<"w", "a", "r", "n", "i", "n", "g">>
S_compiler_message == <<"c", "o", "m", "p", "i", "l", "e", "r", "-", "m", "e", "s", "s", "a", "g", "e">>
S_Error_code == <<"E", "r", "r", "o", "r", " ", "c", "o", "d", "e", " ">>
S_Suggested_replacement == <<"S", "u", "g", "g", "e", "s", "t", "e", "d", " ", "r", "e", "p", "l", "a", "c", "e", "m", "e", "n", "t", ":", " ">>

\* json.loads(line): a line of the stream is text that is not JSON, or the
\* text of one JSON value
JsonLoads(line) ==
    IF line.json THEN [ok |-> TRUE, v |-> line.value] ELSE [ok |-> FALSE, v |-> PyNone]

\* obj.get(key, default): only a dict has the method
HasGet(obj) == obj.t = "dict"

\* `sub in x` as Python evaluates the operator for the type of x
InLevel(sub, x) ==
    CASE x.t = "str" -> [ok |-> TRUE, v |-> Contains(x.v, sub)]
      [] x.t = "list" -> [ok |-> TRUE, v |-> \E i \in 1..Len(x.v) : x.v[i] = PyStr(sub)]
      [] OTHER -> [ok |-> FALSE, v |-> FALSE]

\* body of the for loop of CargoJSONParser.parse_fileobj for one line, up to
\* the call of _annotation_from_message: the frames to run, or the exception
CargoLine(line) ==
    LET loaded == JsonLoads(line)
        msg_obj == loaded.v
    IN IF ~loaded.ok THEN [exc |-> "none", frames |-> <<>>]
       ELSE IF ~HasGet(msg_obj) THEN [exc |-> "AttributeError", frames |-> <<>>]
       ELSE IF Get(msg_obj, "reason", PyNone) = PyStr(S_compiler_message)
               /\ Truthy(Get(msg_obj, "message", PyNone))
            THEN [exc |-> "none",
                  frames |-> <<[message |-> msg_obj.v["message"], parent |-> PyNone]>>]
            ELSE [exc |-> "none", frames |-> <<>>]

\* the is_primary test of the list comprehension, for one span
IsPrimary(span) == Truthy(Get(span, "is_primary", PyBool(FALSE)))

\* CargoJSONParser._get_primary_span_from_message
RECURSIVE FirstPrimary(_)
FirstPrimary(spans) ==
    IF spans = <<>> THEN PyNone
    ELSE IF IsPrimary(Head(spans)) THEN Head(spans)
    ELSE FirstPrimary(Tail(spans))

GetPrimarySpanFromMessage(message) ==
    LET spans == Get(message, "spans", PyList(<<>>))
    IN IF spans.t # "list" THEN [exc |-> "TypeError", v |-> PyNone]
       ELSE IF \E i \in 1..Len(spans.v) : ~HasGet(spans.v[i])
            THEN [exc |-> "AttributeError", v |-> PyNone]
       ELSE [exc |-> "none", v |-> FirstPrimary(spans.v)]

\* lines 197-204: the title with the reference to the primary span in front
TitleWithPrimaryRef(title, primary_span) ==
    LET primary_path == Get(primary_span, "file_name", PyNone)
        primary_line == Get(primary_span, "line_start", PyNone)
        primary_ref ==
            IF Truthy(primary_span) /\ Truthy(primary_path) /\ Truthy(primary_line)
            THEN Format(primary_path) \o <<"#">> \o Format(primary_line)
            ELSE <<>>
    IN IF primary_ref # <<>>
       THEN PyStr(primary_ref \o <<":", " ">> \o Format(title))
       ELSE title

\* lines 175-188: rendered text, error code and explanation
BaseRawDetails(message) ==
    LET rendered == Get(message, "rendered", PyNone)
        code == Get(message, "code", PyNone)
        base == IF Truthy(rendered) THEN rendered.v \o <<"\n">> ELSE <<>>
        err_code == Get(code, "code", PyNone)
        expl == Get(code, "explanation", PyNone)
        with_code == IF Truthy(err_code)
                     THEN base \o S_Error_code \o Format(err_code) \o <<"\n">>
                     ELSE base
    IN IF Truthy(rendered) /\ rendered.t # "str" THEN [exc |-> "TypeError", v |-> <<>>]
       ELSE IF code = PyNone THEN [exc |-> "none", v |-> base]
       ELSE IF ~HasGet(code) THEN [exc |-> "AttributeError", v |-> <<>>]
       ELSE IF Truthy(expl) /\ expl.t # "str" THEN [exc |-> "TypeError", v |-> <<>>]
       ELSE [exc |-> "none", v |-> IF Truthy(expl) THEN with_code \o expl.v ELSE with_code]

\* body of `for span in spans` (lines 206-242) for one span
CargoSpan(p, span, title, ann_level, base_raw_details) ==
    IF ~HasGet(span) THEN PState(p.annotations, p.status, "AttributeError")
    ELSE
      LET path == Get(span, "file_name", PyNone)
          line_start == Get(span, "line_start", PyNone)
          given_end == Get(span, "line_end", PyNone)
          line_end == IF given_end = PyNone THEN line_start ELSE given_end
          suggested_replacement == Get(span, "suggested_replacement", PyNone)
          given_label == Get(span, "label", PyNone)
          label == IF given_label # PyNone THEN given_label
                   ELSE IF Truthy(suggested_replacement)
                        THEN PyStr(S_Suggested_replacement \o Format(suggested_replacement))
                   ELSE title
          columns == IF line_start = line_end
                     THEN [start_column |-> Get(span, "column_start", PyNone),
                           end_column |-> Get(span, "column_end", PyNone)]
                     ELSE NoOptionals
          details == IF base_raw_details # <<>>
                     THEN [raw_details |-> PyStr(base_raw_details)] ELSE NoOptionals
          titled == IF Truthy(title) THEN [title |-> title] ELSE NoOptionals
          optionals == columns @@ details @@ titled
          first == IntOf(line_start)
          last == IntOf(line_end)
      IN IF path = PyNone \/ line_start = PyNone THEN p
         ELSE IF label = PyNone THEN p
         ELSE IF ~first.ok THEN PState(p.annotations, p.status, first.exc)
         ELSE IF ~last.ok THEN PState(p.annotations, p.status, last.exc)
         ELSE PState(p.annotations \cup
                       {Annotation(path, first.v, last.v, ann_level, label, optionals)},
                     p.status, "none")

RECURSIVE CargoSpans(_, _, _, _, _)
CargoSpans(p, spans, title, ann_level, base_raw_details) ==
    IF spans = <<>> \/ p.raised # "none" THEN p
    ELSE CargoSpans(CargoSpan(p, Head(spans), title, ann_level, base_raw_details),
                    Tail(spans), title, ann_level, base_raw_details)

\* lines 166-173: the annotation level of a message level
AnnLevel(level) ==
    IF InLevel(S_error, level).v THEN "failure"
    ELSE IF InLevel(S_warning, level).v THEN "warning"
    ELSE "notice"

\* as StatusAfterLevel, with the warning branch leaving the status alone
StatusAfterErrorOnly(st, level) ==
    IF InLevel(S_error, level).v THEN FAILURE ELSE st

\* lines 166-173: the parser status after a message of this level
StatusAfterLevel(st, level) ==
    IF InLevel(S_error, level).v \/ InLevel(S_warning, level).v THEN FAILURE ELSE st

\* as PrimarySource, with the parent ignored
PrimarySourceOwn(message, parent) == message

\* lines 192-195: the message whose primary span the title refers to
PrimarySource(message, parent) == IF Truthy(parent) THEN parent ELSE message

\* lines 244-246: the calls made for the children, in order
ChildFrames(message) ==
    LET children == Get(message, "children", PyList(<<>>))
    IN [i \in 1..Len(children.v) |-> [message |-> children.v[i], parent |-> message]]

\* one call of CargoJSONParser._annotation_from_message(message, parent), up
\* to its recursive calls: the parser's fields after it and the calls it makes
AnnotationFromMessage(p, message, parent) ==
    IF ~HasGet(message)
    THEN [p |-> PState(p.annotations, p.status, "AttributeError"), frames |-> <<>>]
    ELSE
      LET title == Get(message, "message", PyNone)
          level == Get(message, "level", PyNone)
          leveled == PState(p.annotations, StatusAfterLevel(p.status, level), "none")
          details == BaseRawDetails(message)
          spans == Get(message, "spans", PyList(<<>>))
          primary == GetPrimarySpanFromMessage(PrimarySource(message, parent))
          full_title == TitleWithPrimaryRef(title, primary.v)
          after == CargoSpans(leveled, spans.v, full_title, AnnLevel(level), details.v)
          children == Get(message, "children", PyList(<<>>))
      IN IF level = PyNone THEN [p |-> p, frames |-> <<>>]
         ELSE IF ~InLevel(S_error, level).ok
              THEN [p |-> PState(p.annotations, p.status, "TypeError"), frames |-> <<>>]
         ELSE IF details.exc # "none"
              THEN [p |-> PState(leveled.annotations, leveled.status, details.exc),
                    frames |-> <<>>]
         ELSE IF primary.exc # "none"
              THEN [p |-> PState(leveled.annotations, leveled.status, primary.exc),
                    frames |-> <<>>]
         ELSE IF spans.t # "list"
              THEN [p |-> PState(leveled.annotations, leveled.status, "TypeError"),
                    frames |-> <<>>]
         ELSE IF after.raised # "none" THEN [p |-> after, frames |-> <<>>]
         ELSE IF children.t # "list"
              THEN [p |-> PState(after.annotations, after.status, "TypeError"),
                    frames |-> <<>>]
         ELSE [p |-> after, frames |-> ChildFrames(message)]

-----------------------------------------------------------------------------
(* XUnitParser *)

\* error.text[:65536]
RawDetailsCap == 65536

Truncate(text, cap) == SubSeq(text, 1, IF Len(text) < cap THEN Len(text) ELSE cap)

\* elem.iterfind(tag): the direct children with that tag, in document order
IterFind(elem, tag) == SelectSeq(elem.children, LAMBDA c : c.tag = tag)

\* XUnitParser._annotation_from_case
AnnotationFromCase(p, case, error) ==
    LET by_message == Get(error.attrib, "message", PyNone)
        by_type == Get(error.attrib, "type", PyNone)
        message == IF Truthy(by_message) THEN by_message ELSE by_type
        path == Get(case.attrib, "file", PyNone)
        line == Get(case.attrib, "line", PyNone)
        lineno == IntOf(line)
        ann_kwargs == IF Truthy(error.text)
                      THEN [raw_details |-> PyStr(Truncate(error.text.v, RawDetailsCap))]
                      ELSE NoOptionals
    IN IF ~Truthy(by_message) /\ ~Truthy(by_type) THEN p
       ELSE IF ~Truthy(path) THEN p
       ELSE IF ~Truthy(line) THEN p
       ELSE IF ~lineno.ok THEN PState(p.annotations, p.status, lineno.exc)
       ELSE PState(p.annotations \cup
                     {Annotation(path, lineno.v, lineno.v, "failure", message, ann_kwargs)},
                   p.status, "none")

\* lines 270-275: the error children of a case, then its failure children
CaseFindings(case) == IterFind(case, "error") \o IterFind(case, "failure")

\* lines 270-275 for one case: each finding is annotated, then sets the status
RECURSIVE XUnitFindings(_, _, _)
XUnitFindings(p, case, findings) ==
    IF findings = <<>> \/ p.raised # "none" THEN p
    ELSE LET q == AnnotationFromCase(p, case, Head(findings))
         IN IF q.raised # "none" THEN q
            ELSE XUnitFindings(PState(q.annotations, FAILURE, "none"), case, Tail(findings))

RECURSIVE XUnitCases(_, _)
XUnitCases(p, cases) ==
    IF cases = <<>> \/ p.raised # "none" THEN p
    ELSE XUnitCases(XUnitFindings(p, Head(cases), CaseFindings(Head(cases))), Tail(cases))

RECURSIVE XUnitSuites(_, _)
XUnitSuites(p, suites) ==
    IF suites = <<>> \/ p.raised # "none" THEN p
    ELSE XUnitSuites(XUnitCases(p, IterFind(Head(suites), "testcase")), Tail(suites))

InvalidXUnitFormat == "ValueError: Invalid XUnit format."

\* lines 261-266: the suites of an accepted root
XUnitRootAccepted(root_elem) == root_elem.tag \in {"testsuites", "testsuite"}

\* XUnitParser.parse_fileobj; a document is text that is not well-formed
\* XML (etree.fromstring raises), or the element tree of its root
XUnitParse(p, doc) ==
    IF ~doc.wf THEN PState(p.annotations, p.status, "ParseError")
    ELSE IF ~XUnitRootAccepted(doc.root)
         THEN PState(p.annotations, p.status, InvalidXUnitFormat)
    ELSE IF doc.root.tag = "testsuites"
         THEN XUnitSuites(p, IterFind(doc.root, "testsuite"))
    ELSE XUnitSuites(p, <<doc.root>>)

-----------------------------------------------------------------------------
(* Steps of a parser object over its stream *)

Parsing == pc \in {"unit", "file"} /\ raised = "none"

Self == PState(annotations, status, raised)

\* Pep8Parser.parse_fileobj: one iteration of `for line in fileobj`
ParsePep8Line ==
    /\ Parsing /\ kind = "pep8" /\ fileobj # <<>>
    /\ LET p == Pep8Line(Self, Head(fileobj))
       IN /\ annotations' = p.annotations
          /\ status' = p.status
          /\ raised' = p.raised
    /\ fileobj' = Tail(fileobj)
    /\ UNCHANGED <<kind, stack, nread>>
    /\ UNCHANGED cvars

\* CargoJSONParser.parse_fileobj: one iteration of `for line in fileobj`, up
\* to the call of _annotation_from_message
ParseCargoLine ==
    /\ Parsing /\ kind = "cargo" /\ fileobj # <<>> /\ stack = <<>>
    /\ LET r == CargoLine(Head(fileobj))
       IN /\ raised' = r.exc
          /\ stack' = r.frames
    /\ fileobj' = Tail(fileobj)
    /\ UNCHANGED <<kind, annotations, status, nread>>
    /\ UNCHANGED cvars

\* one call of _annotation_from_message; its recursive calls run next, before
\* the calls that were already pending
VisitCargoMessage ==
    /\ Parsing /\ kind = "cargo" /\ stack # <<>>
    /\ LET r == AnnotationFromMessage(Self, Head(stack).message, Head(stack).parent)
       IN /\ annotations' = r.p.annotations
          /\ status' = r.p.status
          /\ raised' = r.p.raised
          /\ stack' = IF r.p.raised # "none" THEN <<>> ELSE r.frames \o Tail(stack)
    /\ UNCHANGED <<kind, fileobj, nread>>
    /\ UNCHANGED cvars

\* XUnitParser.parse_fileobj: fileobj.read() takes the whole document
ParseXUnit ==
    /\ Parsing /\ kind = "xunit" /\ fileobj # <<>>
    /\ LET p == XUnitParse(Self, Head(fileobj))
       IN /\ annotations' = p.annotations
          /\ status' = p.status
          /\ raised' = p.raised
    /\ fileobj' = Tail(fileobj)
    /\ UNCHANGED <<kind, stack, nread>>
    /\ UNCHANGED cvars

-----------------------------------------------------------------------------
(* Inputs of a parser that is run on its own *)

\* a dict entry that may be absent
Maybe(key, values) == {NoOptionals} \cup {key :> v : v \in values}

Str1(c) == PyStr(<<c>>)

\* PEP8 report lines: up to MaxTokens tokens joined by ':', newline at the end
MaxTokens == 4
Pep8Tokens == {<<"a">>, <<"1">>, <<" ", "E">>}
Pep8Lines ==
    {Join(tokens, ":") \o <<"\n">> :
        tokens \in UNION {[1..n -> Pep8Tokens] : n \in 1..MaxTokens}}

\* spans of Cargo diagnostics
SpanA == PyDict([file_name |-> Str1("a"), line_start |-> PyInt(3), line_end |-> PyInt(3),
                 is_primary |-> PyBool(TRUE), label |-> Str1("l"),
                 column_start |-> PyInt(1), column_end |-> PyInt(2)])
SpanB == PyDict([file_name |-> Str1("b"), line_start |-> PyInt(7), line_end |-> PyInt(8),
                 is_primary |-> PyBool(FALSE)])
SpanC == PyDict([file_name |-> Str1("c"), line_start |-> PyInt(5),
                 is_primary |-> PyBool(TRUE), suggested_replacement |-> Str1("r")])
SpanNoFile == PyDict([line_start |-> PyInt(9), is_primary |-> PyBool(TRUE)])
SpanBadLine == PyDict([file_name |-> Str1("a"), line_start |-> Str1("x"),
                       is_primary |-> PyBool(FALSE)])

SpanLists ==
    {<<>>, <<SpanA>>, <<SpanB>>, <<SpanC>>, <<SpanNoFile>>, <<SpanBadLine>>,
     <<SpanB, SpanA>>, <<SpanNoFile, SpanA>>, <<SpanA, SpanC>>}

S_note == <<"n", "o", "t", "e">>
S_ice == S_error \o <<":", " ", "i", "n", "t", "e", "r", "n", "a", "l">>

Message(title, level, spans, children) ==
    PyDict(title @@ level @@ [spans |-> PyList(spans)] @@
           (IF children = <<>> THEN NoOptionals ELSE [children |-> PyList(children)]))

\* messages without children
ChildMessages ==
    {Message(title, level, spans, <<>>) :
        title \in {[message |-> Str1("n")]},
        level \in Maybe("level", {PyStr(S_warning), PyStr(S_note)}),
        spans \in {<<>>, <<SpanB>>, <<SpanC>>}}
    \cup {Message(NoOptionals, [level |-> PyStr(S_note)], <<SpanB>>, <<>>)}

LeafMessages ==
    {Message(title, level, spans, <<>>) :
        title \in Maybe("message", {Str1("t")}),
        level \in Maybe("level", {PyStr(S_error), PyStr(S_warning), PyStr(S_note)}),
        spans \in SpanLists}

ParentMessages ==
    {Message([message |-> Str1("t")], level, spans, <<child>>) :
        level \in Maybe("level", {PyStr(S_error), PyStr(S_note)}),
        spans \in {<<>>, <<SpanA>>, <<SpanB, SpanA>>, <<SpanNoFile, SpanA>>},
        child \in ChildMessages}

\* three levels, two children, rendered text and error code, odd levels
OtherMessages ==
    {Message([message |-> Str1("t")], [level |-> PyStr(S_note)], <<SpanA>>,
             <<Message([message |-> Str1("n")], [level |-> PyStr(S_note)], <<SpanC>>,
                       <<Message([message |-> Str1("m")], [level |-> PyStr(S_warning)],
                                 <<SpanB>>, <<>>)>>)>>),
     Message([message |-> Str1("t")], [level |-> PyStr(S_note)], <<SpanBadLine>>,
             <<Message([message |-> Str1("n")], [level |-> PyStr(S_error)], <<>>, <<>>)>>),
     Message([message |-> Str1("t")], [level |-> PyStr(S_warning)], <<SpanA>>,
             <<Message([message |-> Str1("n")], [level |-> PyStr(S_note)], <<SpanB>>, <<>>),
               Message([message |-> Str1("m")], NoOptionals, <<SpanC>>, <<>>)>>),
     Message([message |-> Str1("t"), rendered |-> Str1("r"),
              code |-> PyDict([code |-> Str1("E"), explanation |-> Str1("x")])],
             [level |-> PyStr(S_ice)], <<SpanB>>, <<>>),
     Message([message |-> Str1("t"), code |-> PyDict([code |-> Str1("E")])],
             [level |-> PyStr(S_error)], <<SpanC>>, <<>>),
     Message([message |-> Str1("t")], [level |-> PyInt(1)], <<SpanA>>, <<>>)}

CargoMessages == LeafMessages \cup ParentMessages \cup OtherMessages

JsonLine(value) == [json |-> TRUE, value |-> value]

\* Cargo --message-format=json lines
CargoLines ==
    {JsonLine(PyDict([reason |-> PyStr(S_compiler_message), message |-> m])) :
        m \in CargoMessages}
    \cup {[json |-> FALSE],
          JsonLine(PyInt(1)),
          JsonLine(PyList(<<>>)),
          JsonLine(PyDict([reason |-> PyStr(S_note), message |-> Message(
              [message |-> Str1("t")], [level |-> PyStr(S_error)], <<SpanA>>, <<>>)])),
          JsonLine(PyDict([reason |-> PyStr(S_compiler_message)]))}

\* xUnit documents
Element(tag, attrib, text, children) ==
    [tag |-> tag, attrib |-> PyDict(attrib), text |-> text, children |-> children]

Findings ==
    {Element(tag, message @@ type, text, <<>>) :
        tag \in {"error", "failure"},
        message \in Maybe("message", {Str1("m")}),
        type \in Maybe("type", {Str1("T")}),
        text \in {PyNone, Str1("d")}}

FindingLists ==
    {<<>>} \cup {<<f>> : f \in Findings}
    \cup {<<Element("failure", [message |-> Str1("m")], PyNone, <<>>),
            Element("error", [type |-> Str1("T")], PyNone, <<>>)>>,
          <<Element("skipped", NoOptionals, PyNone, <<>>)>>}

TestCases ==
    {Element("testcase", file @@ line, PyNone, findings) :
        file \in Maybe("file", {Str1("t")}),
        line \in Maybe("line", {Str1("9"), Str1("x")}),
        findings \in FindingLists}

PassingCase == Element("testcase", [file |-> Str1("t"), line |-> Str1("1")], PyNone, <<>>)

Suites ==
    {Element("testsuite", NoOptionals, PyNone, cases) :
        cases \in {<<>>} \cup {<<c>> : c \in TestCases}
                  \cup {<<PassingCase, c>> : c \in TestCases}}

XmlDoc(root) == [wf |-> TRUE, root |-> root]

XUnitDocs ==
    {XmlDoc(s) : s \in Suites}
    \cup {XmlDoc(Element("testsuites", NoOptionals, PyNone, <<s>>)) : s \in Suites}
    \cup {XmlDoc(Element("testsuites", NoOptionals, PyNone, <<>>)),
          XmlDoc(Element("html", NoOptionals, PyNone,
                         <<Element("testsuite", NoOptionals, PyNone, <<>>)>>)),
          [wf |-> FALSE]}

Kinds == {"cargo", "pep8", "xunit"}

Records(k) ==
    CASE k = "pep8" -> Pep8Lines
      [] k = "cargo" -> CargoLines
      [] k = "xunit" -> XUnitDocs

-----------------------------------------------------------------------------
(* Files the glob patterns of a run of cli() may match *)

File(name, content) == [name |-> name, content |-> content]

\* n findings in the source file `path`, one for each of its first n lines
Pep8Report(path, n) ==
    [i \in 1..n |-> path \o <<":">> \o NatToStr(i) \o <<":", "1", ":", " ", "E", "\n">>]

Pep8Files ==
    {File("clean.txt", <<>>),
     File("lint.txt", <<<<"/", "a", ":", "1", ":", "1", ":", " ", "E", "1", "\n">>, <<"a", ":", "1", ":", "1", ":", " ", "E", "1", "\n">>, <<"a", ":", "2", ":", "4", ":", " ", "W", ":", " ", "x", "\n">>>>),
     File("junk.txt", <<<<"a", ":", "x", ":", "1", ":", " ", "E", "\n">>>>),
     File("big1.txt", Pep8Report(<<"b">>, 50)),
     File("big2.txt", Pep8Report(<<"c">>, 70))}

CargoFiles ==
    {File("build.json",
          <<[json |-> FALSE],
            JsonLine(PyDict([reason |-> PyStr(S_compiler_message),
                             message |-> Message([message |-> Str1("t")],
                                                 [level |-> PyStr(S_error)], <<SpanA>>,
                                                 <<Message([message |-> Str1("n")],
                                                           [level |-> PyStr(S_note)],
                                                           <<SpanC>>, <<>>)>>)]))>>),
     File("info.json",
          <<JsonLine(PyDict([reason |-> PyStr(S_compiler_message),
                             message |-> Message([message |-> Str1("t")],
                                                 [level |-> PyStr(S_note)], <<SpanB>>,
                                                 <<>>)]))>>)}

XUnitFiles ==
    {File("pass.xml", <<XmlDoc(Element("testsuite", NoOptionals, PyNone, <<PassingCase>>))>>),
     File("fail.xml",
          <<XmlDoc(Element("testsuites", NoOptionals, PyNone,
              <<Element("testsuite", NoOptionals, PyNone,
                  <<Element("testcase", [file |-> Str1("t"), line |-> Str1("9")], PyNone,
                      <<Element("failure", [message |-> Str1("m")], Str1("d"),
                                <<>>)>>)>>)>>))>>),
     File("report.html", <<XmlDoc(Element("html", NoOptionals, PyNone, <<>>))>>)}

Files(p) ==
    CASE p = "pep8" -> Pep8Files
      [] p = "cargo" -> CargoFiles
      [] p = "xunit" -> XUnitFiles

\* --del-prefix and --add-prefix
Arguments ==
    [del_prefix : {PyNone, Str1("/")}, add_prefix : {PyNone, Str1("s")}]

-----------------------------------------------------------------------------
(* A parser run on its own: parse_fileobj is called on one stream after    *)
(* another, each holding one record                                        *)

Feed ==
    /\ pc = "unit" /\ raised = "none"
    /\ fileobj = <<>> /\ stack = <<>>
    /\ nread < MaxRecords
    /\ \E record \in Records(kind) : fileobj' = <<record>>
    /\ nread' = nread + 1
    /\ UNCHANGED <<kind, stack, annotations, status, raised>>
    /\ UNCHANGED cvars

-----------------------------------------------------------------------------
(* cli() *)

_parsers == <<"cargo", "pep8", "xunit">>

DisplayName(p) ==
    CASE p = "cargo" -> "Cargo JSON" [] p = "pep8" -> "PEP8" [] p = "xunit" -> "xUnit"

\* the batch size of line 485
BatchSize == 50

Max(a, b) == IF a >= b THEN a ELSE b

\* str.lower() of the names of Status
Lower(name) ==
    CASE name = "SUCCESS" -> "success"
      [] name = "NEUTRAL" -> "neutral"
      [] name = "FAILURE" -> "failure"

AuthFailures ==
    {"Couldn't authenticate as a GitHub app",
     "Couldn't find an installation of this GitHub app on that repository",
     "Couldn't authenticate as app installation",
     "Couldn't find repository"}

Running == [kind |-> "running", v |-> ""]
Returned(v) == [kind |-> "return", v |-> v]
Raised(exc) == [kind |-> "raise", v |-> exc]

\* lines 416-448: arguments, authentication, the empty outputs
Authenticate ==
    /\ pc = "start"
    /\ \E outcome \in {"ok"} \cup AuthFailures :
         IF outcome = "ok"
         THEN /\ pc' = "parsers"
              /\ result' = result
         ELSE /\ pc' = "exit"
              /\ result' = Returned(outcome)
    /\ parser_outputs' = [p \in {"cargo", "pep8", "xunit"} |->
                            [annotations |-> {}, file_info |-> {}]]
    /\ overall_status' = SUCCESS
    /\ pi' = 1
    /\ nfiles' = 0
    /\ UNCHANGED <<args, curfile, all_annotations, output, groups, gi, check_run, calls>>
    /\ UNCHANGED pvars

\* lines 454-456: glob yields a file, a fresh parser object opens it
NextFile ==
    /\ pc = "parsers"
    /\ nfiles < MaxFiles
    /\ \E file \in Files(_parsers[pi]) :
         /\ curfile' = file.name
         /\ fileobj' = file.content
    /\ kind' = _parsers[pi]
    /\ annotations' = {}
    /\ status' = SUCCESS
    /\ raised' = "none"
    /\ stack' = <<>>
    /\ nfiles' = nfiles + 1
    /\ pc' = "file"
    /\ UNCHANGED <<nread, args, pi, parser_outputs, overall_status, all_annotations,
                   output, groups, gi, check_run, calls, result>>

\* the summary line of a parsed file (line 463)
FileInfo(display_name, file, anns, st) ==
    [display_name |-> display_name, file |-> file,
     annotations |-> Cardinality(anns), status |-> StatusName(st)]

\* as RollUp, with the status of the last file winning
RollUpLast(overall, st) == st

\* line 465
RollUp(overall, st) == Max(overall, st)

\* lines 457-465: parse_file returned, its results are merged
MergeFile ==
    /\ pc = "file" /\ raised = "none"
    /\ fileobj = <<>> /\ stack = <<>>
    /\ LET anns == annotations
           outputs == parser_outputs[kind]
       IN parser_outputs' =
            [parser_outputs EXCEPT ![kind] =
               [annotations |-> outputs.annotations \cup anns,
                file_info |-> outputs.file_info \cup
                    {FileInfo(DisplayName(kind), curfile, anns, status)}]]
    /\ overall_status' = RollUp(overall_status, status)
    /\ pc' = "parsers"
    /\ UNCHANGED <<args, pi, nfiles, curfile, all_annotations, output, groups, gi,
                   check_run, calls, result>>
    /\ UNCHANGED pvars

\* an exception of parse_file is caught nowhere in cli()
Propagate ==
    /\ pc = "file" /\ raised # "none"
    /\ pc' = "exit"
    /\ result' = Raised(raised)
    /\ UNCHANGED <<args, pi, nfiles, curfile, parser_outputs, overall_status,
                   all_annotations, output, groups, gi, check_run, calls>>
    /\ UNCHANGED pvars

\* lines 450-453: the patterns of this parser are exhausted (or it has none);
\* after the last parser the loop variable keeps its value
NextParser ==
    /\ pc = "parsers"
    /\ IF pi < Len(_parsers)
       THEN /\ pi' = pi + 1
            /\ pc' = pc
       ELSE /\ pi' = pi
            /\ pc' = "report"
    /\ nfiles' = 0
    /\ UNCHANGED <<args, curfile, parser_outputs, overall_status, all_annotations,
                   output, groups, gi, check_run, calls, result>>
    /\ UNCHANGED pvars

\* lines 467-468
AllAnnotations(outputs) == UNION {outputs[p].annotations : p \in DOMAIN outputs}
AllFiles(outputs) == UNION {outputs[p].file_info : p \in DOMAIN outputs}

\* line 471: the outputs the summary line of parser p is computed from
SummarySource(p, parser) == parser

\* one line of the text (line 476), or nothing
DetailLine(outputs, p, parser) ==
    LET out == outputs[SummarySource(p, parser)]
    IN IF out.file_info # {}
       THEN <<[file_count |-> Cardinality(out.file_info),
               display_name |-> DisplayName(p),
               ann_count |-> Cardinality(out.annotations)]>>
       ELSE <<>>

\* lines 469-476
RECURSIVE Details(_, _, _)
Details(outputs, i, parser) ==
    IF i > Len(_parsers) THEN <<>>
    ELSE DetailLine(outputs, _parsers[i], parser) \o Details(outputs, i + 1, parser)

\* lines 477-482
Output(outputs, parser) ==
    LET details == Details(outputs, 1, parser)
        base == [title |-> "OctoCheck reporter",
                 summary |-> [files |-> Cardinality(AllFiles(outputs)),
                              annotations |-> Cardinality(AllAnnotations(outputs))]]
    IN IF details # <<>> THEN base @@ [text |-> details] ELSE base

\* iter(all_annotations): the order in which a set is iterated is not
\* specified. Two orders are modelled: by start_line, the annotations of one
\* line in an arbitrary order, and the reverse of that.
RECURSIVE SetToSeq(_)
SetToSeq(S) ==
    IF S = {} THEN <<>>
    ELSE LET x == CHOOSE y \in S : TRUE IN <<x>> \o SetToSeq(S \ {x})

RECURSIVE ByLine(_, _, _)
ByLine(S, lo, hi) ==
    IF S = {} THEN <<>>
    ELSE IF lo >= hi THEN SetToSeq(S)
    ELSE LET mid == (lo + hi) \div 2
         IN ByLine({a \in S : a.start_line <= mid}, lo, mid)
            \o ByLine({a \in S : a.start_line > mid}, mid + 1, hi)

Reverse(seq) == [i \in 1..Len(seq) |-> seq[Len(seq) + 1 - i]]

IterOrders(S) ==
    LET lines == {a.start_line : a \in S}
        lo == CHOOSE l \in lines : \A k \in lines : l <= k
        hi == CHOOSE l \in lines : \A k \in lines : l >= k
        order == IF S = {} THEN <<>> ELSE ByLine(S, lo, hi)
    IN {order, Reverse(order)}

\* as ZipLongest, with zip in place of zip_longest: full tuples only
ZipShortest(items, n) ==
    [g \in 1..(Len(items) \div n) |-> [j \in 1..n |-> items[(g - 1) * n + j]]]

\* itertools.zip_longest(*[iter(items)] * n): tuples of n consecutive items,
\* the last one filled up with None
ZipLongest(items, n) ==
    [g \in 1..((Len(items) + n - 1) \div n) |->
        [j \in 1..n |-> IF (g - 1) * n + j <= Len(items)
                        THEN items[(g - 1) * n + j] ELSE PyNone]]

\* itertools.takewhile(lambda i: i is not None, x)
TakeWhileNotNone(x) ==
    LET nones == {i \in 1..Len(x) : x[i] = PyNone}
        first == CHOOSE i \in nones : \A k \in nones : i <= k
    IN IF nones = {} THEN x ELSE SubSeq(x, 1, first - 1)

\* lines 467-486: the summary and the groups
BuildOutput ==
    /\ pc = "report"
    /\ all_annotations' = AllAnnotations(parser_outputs)
    /\ output' = Output(parser_outputs, _parsers[pi])
    /\ \E order \in IterOrders(AllAnnotations(parser_outputs)) :
         groups' = ZipLongest(order, BatchSize)
    /\ gi' = 0
    /\ check_run' = PyNone
    /\ pc' = "submit"
    /\ UNCHANGED <<args, pi, nfiles, curfile, parser_outputs, overall_status, calls, result>>
    /\ UNCHANGED pvars

\* lines 490-494
RewritePath(path, del_prefix, add_prefix) ==
    LET stripped == IF Truthy(del_prefix) /\ StartsWith(path.v, del_prefix.v)
                    THEN PyStr(SubSeq(path.v, Len(del_prefix.v) + 1, Len(path.v)))
                    ELSE path
    IN IF Truthy(add_prefix) THEN PyStr(add_prefix.v \o stripped.v) ELSE stripped

\* lines 495-504
AnnDict(ann, del_prefix, add_prefix) ==
    [path |-> RewritePath(ann.path, del_prefix, add_prefix),
     start_line |-> ann.start_line,
     end_line |-> ann.end_line,
     annotation_level |-> ann.level,
     message |-> ann.message]
    @@ (IF Truthy(ann.start_column) THEN [start_column |-> ann.start_column] ELSE NoOptionals)
    @@ (IF Truthy(ann.end_column) THEN [end_column |-> ann.end_column] ELSE NoOptionals)
    @@ (IF Truthy(ann.title) THEN [title |-> ann.title] ELSE NoOptionals)
    @@ (IF Truthy(ann.raw_details) THEN [raw_details |-> ann.raw_details] ELSE NoOptionals)

\* lines 488-507
ThisBatchOutput(out, x, del_prefix, add_prefix) ==
    LET batch == TakeWhileNotNone(x)
    IN out @@ [annotations |->
                 [i \in 1..Len(batch) |-> AnnDict(batch[i], del_prefix, add_prefix)]]

\* as IsFirstSubmission, with the handle never looked at
EverySubmissionFirst(run) == TRUE

\* line 508: the first submission creates the check run
IsFirstSubmission(run) == run = PyNone

\* lines 487-516: one iteration of `for x in groups`; the request may fail,
\* and the exception leaves cli()
Submit ==
    /\ pc = "submit"
    /\ gi < Len(groups)
    /\ gi' = gi + 1
    /\ LET this_batch_output ==
             ThisBatchOutput(output, groups[gi + 1], args.del_prefix, args.add_prefix)
       IN IF IsFirstSubmission(check_run)
          THEN calls' = Append(calls,
                   [op |-> "create", name |-> "octocheck",
                    conclusion |-> Lower(StatusName(overall_status)),
                    completed_at |-> "utcnow", output |-> this_batch_output])
          ELSE calls' = Append(calls,
                   [op |-> "update", handle |-> check_run, output |-> this_batch_output])
    /\ \E ok \in BOOLEAN :
         IF ok
         THEN /\ check_run' = IF IsFirstSubmission(check_run)
                              THEN [t |-> "check_run", v |-> Len(calls) + 1]
                              ELSE check_run
              /\ UNCHANGED <<pc, result>>
         ELSE /\ pc' = "exit"
              /\ result' = Raised("GitHubError")
              /\ UNCHANGED check_run
    /\ UNCHANGED <<args, pi, nfiles, curfile, parser_outputs, overall_status,
                   all_annotations, output, groups>>
    /\ UNCHANGED pvars

\* the loop over the groups is over: cli() returns None
Finish ==
    /\ pc = "submit"
    /\ gi = Len(groups)
    /\ pc' = "exit"
    /\ result' = Returned("None")
    /\ UNCHANGED <<args, pi, nfiles, curfile, parser_outputs, overall_status,
                   all_annotations, output, groups, gi, check_run, calls>>
    /\ UNCHANGED pvars

-----------------------------------------------------------------------------
(* Specifications *)

NoParser ==
    /\ kind = "none"
    /\ fileobj = <<>>
    /\ stack = <<>>
    /\ annotations = {}
    /\ status = SUCCESS
    /\ raised = "none"
    /\ nread = 0

RunNotStarted ==
    /\ pi = 1
    /\ nfiles = 0
    /\ curfile = ""
    /\ parser_outputs = [p \in {"cargo", "pep8", "xunit"} |->
                           [annotations |-> {}, file_info |-> {}]]
    /\ overall_status = SUCCESS
    /\ all_annotations = {}
    /\ output = [title |-> "OctoCheck reporter"]
    /\ groups = <<>>
    /\ gi = 0
    /\ check_run = PyNone
    /\ calls = <<>>
    /\ result = Running

\* a run of cli() with some arguments
Init ==
    /\ NoParser
    /\ RunNotStarted
    /\ args \in Arguments
    /\ pc = "start"

Next ==
    \/ Authenticate
    \/ NextFile
    \/ ParsePep8Line
    \/ ParseCargoLine
    \/ VisitCargoMessage
    \/ ParseXUnit
    \/ MergeFile
    \/ Propagate
    \/ NextParser
    \/ BuildOutput
    \/ Submit
    \/ Finish

Spec == Init /\ [][Next]_vars

\* one parser object of any class, run on its own over bounded input
InitParser ==
    /\ RunNotStarted
    /\ args = [del_prefix |-> PyNone, add_prefix |-> PyNone]
    /\ pc = "unit"
    /\ kind \in Kinds
    /\ fileobj = <<>>
    /\ stack = <<>>
    /\ annotations = {}
    /\ status = SUCCESS
    /\ raised = "none"
    /\ nread = 0

NextParserStep ==
    \/ Feed
    \/ ParsePep8Line
    \/ ParseCargoLine
    \/ VisitCargoMessage
    \/ ParseXUnit

SpecParsers == InitParser /\ [][NextParserStep]_vars

-----------------------------------------------------------------------------
(* Claims about cli(), checked under Spec *)

\* cli() returned from the end of its body
Completed == pc = "exit" /\ result = Returned("None")

\* C1: when the merged annotation set of a run is empty, cli() still makes
\* exactly one create_check_run call, with an empty annotations list, the
\* summary and the overall status as conclusion, and no update call.
C1_EmptyRunStillReported ==
    (Completed /\ all_annotations = {}) =>
        /\ Len(calls) = 1
        /\ calls[1].op = "create"
        /\ calls[1].output.annotations = <<>>
        /\ calls[1].output.summary = output.summary
        /\ calls[1].conclusion = Lower(StatusName(overall_status))

\* C2: an xUnit document with a root other than testsuites / testsuite is
\* fatal for the parse of that file only: the run goes on with the other
\* files and reaches the submission pass, so the ValueError never ends cli().
C2_EnvelopeErrorIsLocal ==
    ~(pc = "exit" /\ result = Raised(InvalidXUnitFormat))

\* the batches the loop of lines 487-507 takes from the groups
BatchOf(g) == TakeWhileNotNone(groups[g])

RECURSIVE Flatten(_)
Flatten(seqs) == IF seqs = <<>> THEN <<>> ELSE Head(seqs) \o Flatten(Tail(seqs))

\* C5: the batches partition the deduplicated annotation set: for n >= 1
\* annotations there are ceil(n / 50) batches, each of 1 to 50 annotations,
\* all but the last of exactly 50, every annotation is in exactly one batch
\* and the union of the batches is the set.
C5_BatchesPartition ==
    LET n == Cardinality(all_annotations)
        batch == [g \in 1..Len(groups) |-> BatchOf(g)]
        flat == Flatten(batch)
    IN n >= 1 =>
         /\ Len(batch) * 50 >= n /\ (Len(batch) - 1) * 50 < n
         /\ \A g \in 1..Len(batch) : Len(batch[g]) >= 1 /\ Len(batch[g]) <= 50
         /\ \A g \in 1..(Len(batch) - 1) : Len(batch[g]) = 50
         /\ Len(flat) = n
         /\ {flat[i] : i \in 1..Len(flat)} = all_annotations

\* 120 annotations are submitted in batches of 50, 50 and 20
C5_Witness ==
    /\ Completed
    /\ Cardinality(all_annotations) = 120
    /\ Len(groups) = 3
    /\ <<Len(BatchOf(1)), Len(BatchOf(2)), Len(BatchOf(3))>> = <<50, 50, 20>>
    /\ Len(calls) = 3

\* C6: the submissions are create, update, update, ...: only the first is a
\* create, it carries the overall status as conclusion and the completion
\* time; every later one is an update on the handle the create returned and
\* carries the annotations of its own batch only.
C6_CreateThenUpdates ==
    /\ Len(calls) <= Len(groups)
    /\ \A i \in 1..Len(calls) :
         LET batch == BatchOf(i)
             sent == calls[i].output.annotations
         IN /\ calls[i].op = (IF i = 1 THEN "create" ELSE "update")
            /\ i = 1 => /\ calls[i].conclusion = Lower(StatusName(overall_status))
                        /\ "completed_at" \in DOMAIN calls[i]
            /\ i > 1 => /\ calls[i].handle = [t |-> "check_run", v |-> 1]
                        /\ calls[i].handle = check_run
                        /\ DOMAIN calls[i] = {"op", "handle", "output"}
            /\ Len(sent) = Len(batch)
            /\ \A j \in 1..Len(batch) :
                 sent[j] = AnnDict(batch[j], args.del_prefix, args.add_prefix)

\* a create followed by two updates
C6_Witness ==
    /\ Len(calls) = 3
    /\ calls[1].op = "create" /\ calls[2].op = "update" /\ calls[3].op = "update"
    /\ Completed

StatusValue(name) == CHOOSE s \in {SUCCESS, NEUTRAL, FAILURE} : StatusName(s) = name

\* the statuses of the parser runs merged so far
RunStatuses == {StatusValue(info.status) : info \in AllFiles(parser_outputs)}

\* C7: the conclusion submitted is the maximum, under SUCCESS < NEUTRAL <
\* FAILURE, of the statuses of all per-file parser runs, SUCCESS when there
\* are none; it depends on the set of the statuses only, not on their order,
\* and one FAILURE run makes it FAILURE.
C7_WorstStatusWins ==
    /\ \A s \in RunStatuses \cup {SUCCESS} : overall_status >= s
    /\ overall_status \in RunStatuses \cup {SUCCESS}
    /\ FAILURE \in RunStatuses => overall_status = FAILURE
    /\ \A i \in 1..Len(calls) :
         calls[i].op = "create" => calls[i].conclusion = Lower(StatusName(overall_status))

\* a run whose last parsed file succeeded after an earlier one failed
C7_Witness ==
    /\ Completed
    /\ SUCCESS \in RunStatuses /\ FAILURE \in RunStatuses
    /\ status = SUCCESS
    /\ calls # <<>> /\ calls[1].conclusion = "failure"

\* the lines the text should hold: one for each format with parsed files
RECURSIVE OwnDetails(_, _)
OwnDetails(outputs, i) ==
    IF i > Len(_parsers) THEN <<>>
    ELSE LET own == outputs[_parsers[i]]
         IN (IF own.file_info # {}
             THEN <<[file_count |-> Cardinality(own.file_info),
                     display_name |-> DisplayName(_parsers[i]),
                     ann_count |-> Cardinality(own.annotations)]>>
             ELSE <<>>) \o OwnDetails(outputs, i + 1)

\* C8: the summary text has, for every format with at least one parsed file
\* and for no other format, one line with that format's own number of files
\* and of annotations.
C8_OwnCountsPerFormat ==
    pc = "submit" =>
        (IF "text" \in DOMAIN output THEN output.text ELSE <<>>)
            = OwnDetails(parser_outputs, 1)

-----------------------------------------------------------------------------
(* Claims about the parsers, checked under SpecParsers *)

EnvelopeErrors == {InvalidXUnitFormat, "ParseError"}

\* C3: with a valid envelope, no parser raises because of a malformed
\* record: a style line with a non-integer line or column, a JSON line that
\* is not an object or has a non-numeric line_start, and a test case with a
\* non-integer line are skipped and the rest of the stream is processed.
C3_MalformedRecordsSkipped ==
    raised \in {"none"} \cup EnvelopeErrors

\* the step that parses the next line of a PEP8 report
Pep8LineStep == kind = "pep8" /\ fileobj # <<>> /\ fileobj' = Tail(fileobj)

\* C4: a style line that splits on ':' into fewer than 4 tokens yields no
\* annotation and leaves the status as it was; only lines of at least 4
\* tokens add an annotation and set the status to FAILURE.
C4_FewerThanFourTokensSkipped ==
    [][Pep8LineStep /\ Len(Split(Head(fileobj), ":")) < 4
         => annotations' = annotations /\ status' = status]_vars

\* the step that runs the pending call _annotation_from_message(m, parent)
CargoVisitStep ==
    /\ kind = "cargo" /\ stack # <<>> /\ raised = "none"
    /\ HasGet(Head(stack).message)
    /\ stack' # stack

LevelText(message) == Get(message, "level", PyNone)

HasLevelText(message) == LevelText(message).t = "str"

Failing(level) == Contains(level.v, S_error) \/ Contains(level.v, S_warning)

\* C9: a visited message whose level text contains 'error' or 'warning'
\* sets the status to FAILURE, with or without spans; any other level text
\* leaves the status as it was; a message without a level changes neither
\* status nor annotations and its children are not visited.
C9_LevelDecidesStatus ==
    [][CargoVisitStep =>
         LET message == Head(stack).message
         IN /\ HasLevelText(message) /\ Failing(LevelText(message))
                 => status' = FAILURE
            /\ HasLevelText(message) /\ ~Failing(LevelText(message))
                 => status' = status
            /\ LevelText(message) = PyNone
                 => /\ status' = status
                    /\ annotations' = annotations
                    /\ stack' = Tail(stack)]_vars

\* an 'error' message without spans: status FAILURE and no annotation
C9_Witness ==
    /\ kind = "cargo" /\ pc = "unit"
    /\ nread = 1 /\ fileobj = <<>> /\ stack = <<>> /\ raised = "none"
    /\ status = FAILURE
    /\ annotations = {}

\* the spans of a message
SpansOf(message) == Get(message, "spans", PyList(<<>>)).v

FlaggedPrimary(span) == "is_primary" \in DOMAIN span.v /\ span.v["is_primary"] = PyBool(TRUE)

\* the title C10 expects for the annotations of a message, given the message
\* whose spans are consulted
ExpectedTitle(message, consulted) ==
    LET spans == SpansOf(consulted)
        own == Get(message, "message", PyNone)
        flagged == {i \in 1..Len(spans) : FlaggedPrimary(spans[i])}
        first == spans[CHOOSE i \in flagged : \A j \in flagged : i <= j]
    IN IF flagged # {}
          /\ "file_name" \in DOMAIN first.v /\ "line_start" \in DOMAIN first.v
       THEN PyStr(Format(first.v["file_name"]) \o <<"#">> \o Format(first.v["line_start"])
                  \o <<":", " ">> \o Format(own))
       ELSE own

\* C10: the title of every annotation emitted for a child message has the
\* prefix '{file}#{line}: ' of the first primary span of its immediate
\* parent, never of its own spans; for a top-level message the prefix comes
\* from its own first primary span; without a primary span that has a file
\* name and a starting line there is no prefix. Path and lines of the
\* annotation are those of a span of the message itself.
C10_TitleFromParentPrimary ==
    [][CargoVisitStep =>
         LET message == Head(stack).message
             parent == Head(stack).parent
             consulted == IF parent # PyNone THEN parent ELSE message
         IN \A ann \in annotations' \ annotations :
              /\ ann.title = ExpectedTitle(message, consulted)
              /\ \E i \in 1..Len(SpansOf(message)) :
                   LET span == SpansOf(message)[i]
                   IN /\ Get(span, "file_name", PyNone) = ann.path
                      /\ Get(span, "line_start", PyNone) = PyInt(ann.start_line)]_vars

\* a child's annotation at its own span c:5, titled after its parent's a#3
C10_Witness ==
    /\ kind = "cargo" /\ raised = "none"
    /\ \E ann \in annotations :
         /\ ann.path = Str1("c")
         /\ ann.start_line = 5
         /\ ann.title = PyStr(<<"a", "#", "3", ":", " ", "n">>)

-----------------------------------------------------------------------------
(* Claims about the test-report parser, checked under SpecParsers *)

\* the step in which parse_fileobj takes a well-formed document whose root
\* is one of the two accepted tags
XUnitDocStep ==
    /\ kind = "xunit" /\ raised = "none"
    /\ fileobj # <<>> /\ fileobj' = Tail(fileobj)
    /\ Head(fileobj).wf
    /\ Head(fileobj).root.tag \in {"testsuites", "testsuite"}

\* the children of an element with one of the given tags
ChildrenTagged(elem, tags) ==
    {elem.children[i] : i \in {k \in 1..Len(elem.children) : elem.children[k].tag \in tags}}

\* the test cases of the suites of a document
CasesOf(doc) ==
    LET suites == IF doc.root.tag = "testsuites"
                  THEN ChildrenTagged(doc.root, {"testsuite"})
                  ELSE {doc.root}
    IN UNION {ChildrenTagged(suite, {"testcase"}) : suite \in suites}

\* the pairs of a test case and one of its 'error' or 'failure' children
FindingsOf(doc) ==
    UNION {{<<case, child>> : child \in ChildrenTagged(case, {"error", "failure"})} :
              case \in CasesOf(doc)}

HasAttr(elem, name) == Truthy(Get(elem.attrib, name, PyNone))

\* the child has a message or a type, and the case has a file and a line
Annotatable(case, child) ==
    /\ HasAttr(child, "message") \/ HasAttr(child, "type")
    /\ HasAttr(case, "file") /\ HasAttr(case, "line")

\* C11: after parsing a document with an accepted root, the status is
\* FAILURE if and only if some test case of some suite has at least one
\* 'error' or 'failure' child (or the status was FAILURE before), also when
\* the child yields no annotation; an annotation is emitted only for a child
\* with a message or type in a test case with both 'file' and 'line', and
\* every emitted annotation has level 'failure' and start_line = end_line.
C11_FindingDecidesStatus ==
    [][XUnitDocStep =>
         LET found == FindingsOf(Head(fileobj))
         IN /\ status' = FAILURE <=> (status = FAILURE \/ found # {})
            /\ \A ann \in annotations' \ annotations :
                 /\ ann.level = "failure"
                 /\ ann.start_line = ann.end_line
                 /\ \E f \in found :
                      /\ Annotatable(f[1], f[2])
                      /\ ann.path = Get(f[1].attrib, "file", PyNone)]_vars

-----------------------------------------------------------------------------
(* Claims about the payloads a run of cli() submits, checked under Spec *)

\* the annotation payloads of all submissions made so far, in order
SubmittedPayloads ==
    Flatten([i \in 1..Len(calls) |-> calls[i].output.annotations])

\* C12: deduplication survives path rewriting: for every del_prefix and
\* add_prefix configuration, no two annotation payloads submitted across
\* the batches of one run are identical.
C12_PayloadsDistinct ==
    LET sent == SubmittedPayloads
    IN Cardinality({sent[i] : i \in 1..Len(sent)}) = Len(sent)

====
